---- MODULE Spec2Model ----
(***************************************************************************)
(* A model of src/src/index.ts: the SoundPool class, interactWithSphere,   *)
(* the click and mousemove listeners and the animate() frame callback.     *)
(*                                                                         *)
(* Units.  Times are milliseconds (performance.now()).  Lengths are tenths *)
(* of a scene unit: every coordinate of sphereData has one decimal, the    *)
(* scale is 0.7 and the hand radius 0.1, so the proximity test is exact in *)
(* integers (distance < r  <=>  distance^2 < r^2 for non-negative values). *)
(* The rotation speeds of sphereData are written in tenths of rad/s; the   *)
(* rotation update works on the doubles they stand for, with the rounding  *)
(* of every operation (see the section on numbers).                        *)
(***************************************************************************)
EXTENDS Integers, Sequences, FiniteSets, TLC

VARIABLES
    sounds,          \* SoundPool.sounds of every pool: the isPlaying flag of each ready voice
    currentIndex,    \* SoundPool.currentIndex of every pool
    pending,         \* audioLoader.load requests of every pool not yet answered
    played,          \* history: voices selected by play() since the pool's last arrival
    waited,          \* history: for every ready voice, the play() calls of its pool that
                     \* passed it over since it arrived or was last selected
    color,           \* material.color of every mesh
    rotation,        \* mesh.rotation of every mesh, <<x, y, z>>, doubles
    lastTouchedTime, \* the Map<Mesh, number>: a function on the meshes that have an entry
    lastTime,        \* the lastTime of main(), read and written by animate()
    cursor,          \* container.style.cursor
    xr,              \* what world.xr gives: its state and, in a frame, session.inputSources
    run,             \* history: for every mesh, its run of consecutive frames in reach of a hand
    last             \* history: the handler that ran last, its inputs and what it called

vars == <<sounds, currentIndex, pending, played, waited, color, rotation,
          lastTouchedTime, lastTime, cursor, xr, run, last>>

poolVars  == <<sounds, currentIndex, pending, played, waited>>
sceneVars == <<color, rotation, lastTouchedTime, lastTime, cursor, xr, run>>

----------------------------------------------------------------------------
(* Bounds of the model *)

\* The poolSize every pool is constructed with (5 in the source).
PoolSize == 3
\* The largest index Math.floor(Math.random() * colors.length) is drawn from.
MaxDraw == 1
\* session.inputSources holds at most MaxSources input sources.
MaxSources == 2
\* Frames are modelled while performance.now() <= MaxTicks * 100 ms.
MaxTicks == 6

----------------------------------------------------------------------------
(* Program constants *)

TOUCH_COOLDOWN == 200
handRadius == 1

\* rows of sphereData: position (tenths), scale (tenths), color, sound,
\* rotation speed (tenths of rad/s)
sphereData == <<
    [position |-> << 33,  15, -20>>, scale |-> 7, color |-> "#FFBFC3", sound |-> 4, rotation |-> <<0, 6, 6>>],
    [position |-> <<-20,  15, -15>>, scale |-> 7, color |-> "#E6D62E", sound |-> 3, rotation |-> <<0, 0, 6>>],
    [position |-> << 20,  30, -30>>, scale |-> 7, color |-> "#BADFFF", sound |-> 2, rotation |-> <<0, 0, 5>>],
    [position |-> << 31, -20, -20>>, scale |-> 7, color |-> "#BADFFF", sound |-> 1, rotation |-> <<0, 6, 0>>],
    [position |-> <<  5,  10, -25>>, scale |-> 7, color |-> "#EBDCAB", sound |-> 1, rotation |-> <<6, 0, 0>>],
    [position |-> <<-35, -15, -25>>, scale |-> 7, color |-> "#BADFFF", sound |-> 0, rotation |-> <<2, 0, 0>>],
    [position |-> << 16,  20,  25>>, scale |-> 7, color |-> "#BADFFF", sound |-> 3, rotation |-> <<0, 0, 6>>],
    [position |-> << 39,   0, -15>>, scale |-> 7, color |-> "#F77B23", sound |-> 2, rotation |-> <<0, 0, 6>>],
    [position |-> <<-19,   0, -30>>, scale |-> 7, color |-> "#F0BB0E", sound |-> 4, rotation |-> <<6, 3, 0>>],
    [position |-> <<-40,  10, -39>>, scale |-> 7, color |-> "#F77B23", sound |-> 1, rotation |-> <<0, 0, 6>>],
    [position |-> << 20,   1, -17>>, scale |-> 7, color |-> "#E6D62E", sound |-> 0, rotation |-> <<6, 0, 0>>],
    [position |-> <<-29, -10,  10>>, scale |-> 7, color |-> "#EBDCAB", sound |-> 4, rotation |-> <<0, 0, 9>>] >>

colors == << "#ffb3b3", "#F7E6B2", "#E0A900", "#BA6368",
             "#FFCD69", "#C7FC62", "#E5FFB3", "#BADFFF" >>

\* soundPools, cut to its first two pools: the url of each
soundPools == << "./sounds/sound1.mp3", "./sounds/sound2.mp3" >>

\* the indices of soundPools that hold a pool
Pools == 0 .. (Len(soundPools) - 1)

\* sphereMeshes, in the order of the array, cut to two meshes: the rows of
\* sphereData they are made from.  Row 3 has sound 2, which names no pool of
\* the two kept, and row 4 has sound 1.
sphereMeshes == <<3, 4>>
Spheres == {sphereMeshes[i] : i \in DOMAIN sphereMeshes}

----------------------------------------------------------------------------
(* three.js Audio, as the code uses it *)

\* one call on a voice, as recorded in last.audio
AudioOp(p, i, act) == [pool |-> p, voice |-> i, act |-> act]

\* Audio.stop(): the voice is no longer playing
AudioStop(isPlaying) == FALSE

\* Audio.play(): the voice is playing
AudioPlay(isPlaying) == TRUE

----------------------------------------------------------------------------
(* SoundPool *)

\* The part of the state play() and interactWithSphere work on, threaded
\* through the calls of one handler.
Env == [sounds |-> sounds, currentIndex |-> currentIndex, color |-> color, audio |-> <<>>]

\* the set of the entries of a sequence
Range(f) == {f[i] : i \in DOMAIN f}

\* the last n entries of a sequence
LastN(s, n) == IF Len(s) <= n THEN s ELSE SubSeq(s, Len(s) - n + 1, Len(s))

\* SoundPool.play() that advances currentIndex before it looks at the pool
PlayNoGuard(e, p) ==
    IF Len(e.sounds[p]) = 0 THEN [e EXCEPT !.currentIndex[p] = @ + 1]
    ELSE LET i == e.currentIndex[p] % Len(e.sounds[p])
             wasPlaying == e.sounds[p][i + 1]
         IN [e EXCEPT !.sounds[p][i + 1] = AudioPlay(IF wasPlaying THEN AudioStop(@) ELSE @),
                      !.audio = @ \o (IF wasPlaying THEN <<AudioOp(p, i, "stop")>> ELSE <<>>)
                                  \o <<AudioOp(p, i, "play")>>,
                      !.currentIndex[p] = (i + 1) % Len(e.sounds[p])]

\* SoundPool.play() that never stops the selected voice
PlayNoStop(e, p) ==
    IF Len(e.sounds[p]) = 0 THEN e
    ELSE LET i == e.currentIndex[p]
         IN [e EXCEPT !.sounds[p][i + 1] = AudioPlay(@),
                      !.audio = @ \o <<AudioOp(p, i, "play")>>,
                      !.currentIndex[p] = (i + 1) % Len(e.sounds[p])]

\* SoundPool.play() that does not advance currentIndex
PlayNoAdvance(e, p) ==
    IF Len(e.sounds[p]) = 0 THEN e
    ELSE LET i == e.currentIndex[p]
             wasPlaying == e.sounds[p][i + 1]
         IN [e EXCEPT !.sounds[p][i + 1] = AudioPlay(IF wasPlaying THEN AudioStop(@) ELSE @),
                      !.audio = @ \o (IF wasPlaying THEN <<AudioOp(p, i, "stop")>> ELSE <<>>)
                                  \o <<AudioOp(p, i, "play")>>]

\* SoundPool.play() that advances currentIndex modulo the poolSize the pool
\* was constructed with
PlayModPoolSize(e, p) ==
    IF Len(e.sounds[p]) = 0 THEN e
    ELSE LET i == e.currentIndex[p] % Len(e.sounds[p])
             wasPlaying == e.sounds[p][i + 1]
         IN [e EXCEPT !.sounds[p][i + 1] = AudioPlay(IF wasPlaying THEN AudioStop(@) ELSE @),
                      !.audio = @ \o (IF wasPlaying THEN <<AudioOp(p, i, "stop")>> ELSE <<>>)
                                  \o <<AudioOp(p, i, "play")>>,
                      !.currentIndex[p] = (i + 1) % PoolSize]

\* SoundPool.play() that stops every playing voice of the pool
PlayMono(e, p) ==
    IF Len(e.sounds[p]) = 0 THEN e
    ELSE LET i == e.currentIndex[p]
             stops == {j \in DOMAIN e.sounds[p] : e.sounds[p][j]}
             Stop[k \in 0 .. Len(e.sounds[p])] ==
                 IF k = 0 THEN <<>>
                 ELSE Stop[k - 1] \o (IF k \in stops THEN <<AudioOp(p, k - 1, "stop")>> ELSE <<>>)
         IN [e EXCEPT !.sounds[p] = [j \in DOMAIN @ |-> j = i + 1],
                      !.audio = @ \o Stop[Len(e.sounds[p])] \o <<AudioOp(p, i, "play")>>,
                      !.currentIndex[p] = (i + 1) % Len(e.sounds[p])]

\* SoundPool.play() that wraps currentIndex one slot early
PlayWrapsEarly(e, p) ==
    IF Len(e.sounds[p]) = 0 THEN e
    ELSE LET i == e.currentIndex[p]
             wasPlaying == e.sounds[p][i + 1]
             n == IF Len(e.sounds[p]) > 1 THEN Len(e.sounds[p]) - 1 ELSE 1
         IN [e EXCEPT !.sounds[p][i + 1] = AudioPlay(IF wasPlaying THEN AudioStop(@) ELSE @),
                      !.audio = @ \o (IF wasPlaying THEN <<AudioOp(p, i, "stop")>> ELSE <<>>)
                                  \o <<AudioOp(p, i, "play")>>,
                      !.currentIndex[p] = (i + 1) % n]

\* SoundPool.play() on pool p
SoundPool_play(e, p) ==
    IF Len(e.sounds[p]) = 0 THEN e
    ELSE LET i == e.currentIndex[p]
             wasPlaying == e.sounds[p][i + 1]
         IN [e EXCEPT !.sounds[p][i + 1] = AudioPlay(IF wasPlaying THEN AudioStop(@) ELSE @),
                      !.audio = @ \o (IF wasPlaying THEN <<AudioOp(p, i, "stop")>> ELSE <<>>)
                                  \o <<AudioOp(p, i, "play")>>,
                      !.currentIndex[p] = (i + 1) % Len(e.sounds[p])]

\* what a handler leaves in `last`; burst is set by play() alone
Ran(op, p, hits, calls, audio) ==
    [op |-> op, pool |-> p, hits |-> hits, checked |-> <<>>, calls |-> calls, audio |-> audio,
     burst |-> 0]

\* a load callback that sets currentIndex back to 0
LoadDoneRewinds(p) ==
    /\ pending[p] > 0
    /\ pending' = [pending EXCEPT ![p] = @ - 1]
    /\ sounds' = [sounds EXCEPT ![p] = Append(@, FALSE)]
    /\ currentIndex' = [currentIndex EXCEPT ![p] = 0]
    /\ played' = [played EXCEPT ![p] = <<>>]
    /\ waited' = [waited EXCEPT ![p] = Append(@, 0)]
    /\ last' = Ran("load", p, <<>>, <<>>, <<>>)
    /\ UNCHANGED sceneVars

\* the load callback of pool p: one more ready voice
LoadDone(p) ==
    /\ pending[p] > 0
    /\ pending' = [pending EXCEPT ![p] = @ - 1]
    /\ sounds' = [sounds EXCEPT ![p] = Append(@, FALSE)]
    /\ played' = [played EXCEPT ![p] = <<>>]
    /\ waited' = [waited EXCEPT ![p] = Append(@, 0)]
    /\ last' = Ran("load", p, <<>>, <<>>, <<>>)
    /\ UNCHANGED <<currentIndex, sceneVars>>

\* a load of pool p fails: its callback is never called
LoadFail(p) ==
    /\ pending[p] > 0
    /\ pending' = [pending EXCEPT ![p] = @ - 1]
    /\ last' = Ran("loadfail", p, <<>>, <<>>, <<>>)
    /\ UNCHANGED <<sounds, currentIndex, played, waited, sceneVars>>

\* the playback of voice i of pool p reaches its end: isPlaying is false again
Ended(p, i) ==
    /\ i \in 1 .. Len(sounds[p])
    /\ sounds[p][i]
    /\ sounds' = [sounds EXCEPT ![p][i] = FALSE]
    /\ last' = Ran("ended", p, <<>>, <<>>, <<>>)
    /\ UNCHANGED <<currentIndex, pending, played, waited, sceneVars>>

\* the voices started by the calls recorded in audio, in order
RECURSIVE Selected(_)
Selected(audio) ==
    IF audio = <<>> THEN <<>>
    ELSE (IF Head(audio).act = "play" THEN <<Head(audio).voice>> ELSE <<>>)
             \o Selected(Tail(audio))

\* The place of a play() call on pool p in a run of calls that follow one
\* another with no other step between them, the first of them made with all
\* PoolSize voices ready and none playing; 0 outside such a run.
Burst(p) ==
    IF last.op = "play" /\ last.pool = p /\ last.burst \in 1 .. PoolSize
    THEN last.burst + 1
    ELSE IF Len(sounds[p]) = PoolSize /\ \A i \in DOMAIN sounds[p] : ~sounds[p][i]
    THEN 1
    ELSE 0

\* a call of play() on pool p
Play(p) ==
    LET e == SoundPool_play(Env, p)
        sel == Selected(e.audio)
    IN /\ sounds' = e.sounds
       /\ currentIndex' = e.currentIndex
       /\ played' = [played EXCEPT ![p] = LastN(@ \o sel, Len(sounds[p]) + 1)]
       /\ waited' = [waited EXCEPT ![p] =
                        [i \in DOMAIN @ |-> IF sel = <<>> THEN @[i]
                                            ELSE IF sel[1] = i - 1 THEN 0
                                            ELSE @[i] + 1]]
       /\ last' = [Ran("play", p, <<>>, <<>>, e.audio) EXCEPT !.burst = Burst(p)]
       /\ UNCHANGED <<pending, sceneVars>>

----------------------------------------------------------------------------
(* lastTouchedTime and TOUCH_COOLDOWN *)

\* lastTouchedTime.get(mesh) || 0
LastTouched(t, mesh) == IF mesh \in DOMAIN t /\ t[mesh] # 0 THEN t[mesh] ELSE 0

\* lastTouchedTime.set that writes nothing
SetTouchedNot(t, mesh, currentTime) == t

\* lastTouchedTime.set that writes the time to every entry of the map
SetTouchedAll(t, mesh, currentTime) ==
    [x \in (DOMAIN t) \cup {mesh} |-> currentTime]

\* lastTouchedTime.set(mesh, currentTime)
SetTouched(t, mesh, currentTime) ==
    [x \in (DOMAIN t) \cup {mesh} |-> IF x = mesh THEN currentTime ELSE t[x]]

\* the cooldown test with >= for >
CooledDownGeq(t, mesh, currentTime) ==
    currentTime - LastTouched(t, mesh) >= TOUCH_COOLDOWN

\* the cooldown test of a mesh in reach
CooledDown(t, mesh, currentTime) ==
    currentTime - LastTouched(t, mesh) > TOUCH_COOLDOWN

----------------------------------------------------------------------------
(* interactWithSphere and the pointer listeners *)

\* the values Math.floor(Math.random() * colors.length) is drawn from
Draws == 0 .. MaxDraw

\* interactWithSphere that plays the pool before looking at the index,
\* and so gives up the colour change with an index that names no pool
InteractAudioFirst(e, mesh, draw) ==
    IF sphereData[mesh].sound \in Pools /\ Len(e.sounds[sphereData[mesh].sound]) > 0
    THEN SoundPool_play([e EXCEPT !.color[mesh] = colors[draw + 1]], sphereData[mesh].sound)
    ELSE e

\* interactWithSphere that gives every other mesh its original colour back
InteractResetsOthers(e, mesh, draw) ==
    LET soundIndex == sphereData[mesh].sound
        e1 == [e EXCEPT !.color = [m \in DOMAIN @ |-> IF m = mesh THEN colors[draw + 1]
                                                       ELSE sphereData[m].color]]
    IN IF soundIndex \in Pools THEN SoundPool_play(e1, soundIndex) ELSE e1

\* interactWithSphere(mesh), with the index the random colour is taken at
interactWithSphere(e, mesh, draw) ==
    LET soundIndex == sphereData[mesh].sound
        e1 == [e EXCEPT !.color[mesh] = colors[draw + 1]]
    IN IF soundIndex \in Pools THEN SoundPool_play(e1, soundIndex) ELSE e1

\* interactWithSphere on each mesh of calls in turn, with draws[k] for the k-th
RECURSIVE InteractAll(_, _, _)
InteractAll(e, calls, draws) ==
    IF calls = <<>> THEN e
    ELSE InteractAll(interactWithSphere(e, Head(calls), Head(draws)), Tail(calls), Tail(draws))

\* raycaster.intersectObjects(sphereMeshes, false): the meshes the ray meets,
\* nearest first, each once
Intersections ==
    {h \in UNION {[1 .. n -> Spheres] : n \in 0 .. Len(sphereMeshes)} :
        \A i, j \in DOMAIN h : i # j => h[i] # h[j]}

\* a click listener that takes every intersected mesh
ClickedAll(intersects) == intersects

\* a click listener that applies the cooldown of the frame callback
ClickedCooled(intersects) ==
    IF Len(intersects) > 0 /\ CooledDown(lastTouchedTime, intersects[1], lastTime)
    THEN <<intersects[1]>>
    ELSE <<>>

\* the meshes the click listener calls interactWithSphere on
Clicked(intersects) == IF Len(intersects) > 0 THEN <<intersects[1]>> ELSE <<>>

\* the click listener
Click(intersects) ==
    LET calls == Clicked(intersects)
    IN \E draws \in [1 .. Len(calls) -> Draws] :
         LET e == InteractAll(Env, calls, draws)
         IN /\ sounds' = e.sounds
            /\ currentIndex' = e.currentIndex
            /\ color' = e.color
            /\ last' = Ran("click", -1, intersects, calls, e.audio)
            /\ UNCHANGED <<pending, played, waited, rotation, lastTouchedTime, lastTime,
                           cursor, xr, run>>

\* a mousemove listener that also recolours the mesh under the pointer
MouseMoveRecolours(intersects) ==
    /\ cursor' = IF Len(intersects) > 0 THEN "pointer" ELSE "auto"
    /\ color' = IF Len(intersects) > 0
                THEN [color EXCEPT ![intersects[1]] = colors[1]]
                ELSE color
    /\ last' = Ran("mousemove", -1, intersects, <<>>, <<>>)
    /\ UNCHANGED <<poolVars, rotation, lastTouchedTime, lastTime, xr, run>>

\* the mousemove listener
MouseMove(intersects) ==
    /\ cursor' = IF Len(intersects) > 0 THEN "pointer" ELSE "auto"
    /\ last' = Ran("mousemove", -1, intersects, <<>>, <<>>)
    /\ UNCHANGED <<poolVars, color, rotation, lastTouchedTime, lastTime, xr, run>>

----------------------------------------------------------------------------
(* The numbers of the rotation update: IEEE 754 doubles, rounded to nearest, *)
(* ties to even.  A positive double is its 53-bit significand M, with        *)
(* 2^52 <= M < 2^53, written in two limbs M = h * 2^28 + l, and its exponent *)
(* e: the double is M * 2^e.  Zero is h = 0, l = 0, e = 0.  Only zero and     *)
(* positive normal doubles occur; every intermediate value of the operators  *)
(* below stays under 2^31.                                                   *)

Limb == 2^28

FZero == [h |-> 0, l |-> 0, e |-> 0]

\* The double nearest to S * 2^e for S = h * 2^28 + l with 2^55 <= S < 2^57:
\* bit 0 of S stands for everything below it (a sticky bit), and 3 or 4 bits
\* are rounded away.
RoundExt(h, l, e) ==
    LET s == IF h >= 2^28 THEN 4 ELSE 3
        qh == h \div 2^s
        ql == (l \div 2^s) + (h % 2^s) * 2^(28 - s)
        r == l % 2^s
        half == 2^(s - 1)
        up == r > half \/ (r = half /\ ql % 2 = 1)
        ql1 == IF up THEN (ql + 1) % Limb ELSE ql
        qh1 == IF up /\ ql + 1 = Limb THEN qh + 1 ELSE qh
    IN IF qh1 = 2^25 THEN [h |-> 2^24, l |-> 0, e |-> e + s + 1]
       ELSE [h |-> qh1, l |-> ql1, e |-> e + s]

\* l with bit 0 set if sticky
Sticky(l, sticky) == IF sticky /\ l % 2 = 0 THEN l + 1 ELSE l

\* a + b on doubles
FAdd(a, b) ==
    IF a = FZero THEN b
    ELSE IF b = FZero THEN a
    ELSE LET x == IF a.e >= b.e THEN a ELSE b
             y == IF a.e >= b.e THEN b ELSE a
             k == x.e - y.e
             xh == x.h * 8 + (x.l \div 2^25)
             xl == (x.l % 2^25) * 8
             yh0 == y.h * 8 + (y.l \div 2^25)
             yl0 == (y.l % 2^25) * 8
             yh == IF k < 28 THEN yh0 \div 2^k ELSE 0
             yl == IF k < 28 THEN (yl0 \div 2^k) + (yh0 % 2^k) * 2^(28 - k)
                   ELSE IF k < 56 THEN yh0 \div 2^(k - 28)
                   ELSE 0
             lost == IF k < 28 THEN yl0 % 2^k # 0
                     ELSE IF k < 56 THEN (yh0 % 2^(k - 28) # 0) \/ (yl0 # 0)
                     ELSE TRUE
             sl == xl + Sticky(yl, lost)
         IN RoundExt(xh + yh + (sl \div Limb), sl % Limb, x.e - 3)

\* a * b on doubles: the product of the significands in limbs of 14 bits,
\* of which the 49 lowest bits are rounded away first
FMul(a, b) ==
    IF a = FZero \/ b = FZero THEN FZero
    ELSE LET B == 2^14
             a0 == a.l % B
             a1 == a.l \div B
             a2 == a.h % B
             a3 == a.h \div B
             b0 == b.l % B
             b1 == b.l \div B
             b2 == b.h % B
             b3 == b.h \div B
             t0 == a0 * b0
             t1 == a0 * b1 + a1 * b0 + (t0 \div B)
             t2 == a0 * b2 + a1 * b1 + a2 * b0 + (t1 \div B)
             t3 == a0 * b3 + a1 * b2 + a2 * b1 + a3 * b0 + (t2 \div B)
             t4 == a1 * b3 + a2 * b2 + a3 * b1 + (t3 \div B)
             t5 == a2 * b3 + a3 * b2 + (t4 \div B)
             t6 == a3 * b3 + (t5 \div B)
             p3 == t3 % B
             p4 == t4 % B
             p5 == t5 % B
             p6 == t6 % B
             p7 == t6 \div B
             lost == (t0 % B # 0) \/ (t1 % B # 0) \/ (t2 % B # 0) \/ (p3 % 2^7 # 0)
             sl == (p3 \div 2^7) + p4 * 2^7 + (p5 % 2^7) * 2^21
             sh == (p5 \div 2^7) + p6 * 2^7 + p7 * 2^21
         IN RoundExt(sh, Sticky(sl, lost), a.e + b.e + 49)

\* count more bits of the quotient rem / d, after the bits in acc
RECURSIVE QuotientBits(_, _, _, _)
QuotientBits(rem, d, count, acc) ==
    IF count = 0 THEN [q |-> acc, rem |-> rem]
    ELSE IF 2 * rem >= d THEN QuotientBits(2 * rem - d, d, count - 1, 2 * acc + 1)
    ELSE QuotientBits(2 * rem, d, count - 1, 2 * acc)

\* n and d scaled by powers of two so that d <= n < 2 * d, and the exponent
\* by which n / d has changed
RECURSIVE Scaled(_, _, _)
Scaled(n, d, e) ==
    IF n < d THEN Scaled(2 * n, d, e - 1)
    ELSE IF n >= 2 * d THEN Scaled(n, 2 * d, e + 1)
    ELSE [n |-> n, d |-> d, e |-> e]

\* n / d on doubles that hold the integers n >= 0 and d > 0; also the
\* double a decimal literal n/d stands for
FDivInt(n, d) ==
    IF n = 0 THEN FZero
    ELSE LET s == Scaled(n, d, 0)
             hi == QuotientBits(s.n - s.d, s.d, 27, 1)
             lo == QuotientBits(hi.rem, s.d, 28, 0)
         IN RoundExt(hi.q, Sticky(lo.q, lo.rem # 0), s.e - 55)

----------------------------------------------------------------------------
(* animate() *)

\* the time between two frames, ms
Deltas == {100, 200, 300}

\* what world.xr gives in a frame: not presenting, presenting with no
\* session, a session with no frame, or a frame
XRStates == {"notPresenting", "noSession", "noFrame", "frame"}

\* a + b on vectors
VecAdd(a, b) == <<a[1] + b[1], a[2] + b[2], a[3] + b[3]>>

\* the grip positions tried: the centre of the first mesh, a point at
\* distance 0.8 exactly from it, and a point at distance sqrt(0.57) from the
\* second mesh
HandPoints ==
    {sphereData[sphereMeshes[1]].position,
     VecAdd(sphereData[sphereMeshes[1]].position, <<8, 0, 0>>),
     VecAdd(sphereData[sphereMeshes[2]].position, <<4, 4, 5>>)}

\* an input source: whether it has a gripSpace, whether frame.getPose gives
\* a pose, and the position of that pose
InputSources ==
    {[gripSpace |-> FALSE, pose |-> FALSE, position |-> <<0, 0, 0>>],
     [gripSpace |-> TRUE, pose |-> FALSE, position |-> <<0, 0, 0>>]}
    \cup {[gripSpace |-> TRUE, pose |-> TRUE, position |-> h] : h \in HandPoints}

\* handPosition.distanceTo(mesh.position), squared
DistSq(a, b) ==
    (a[1] - b[1]) * (a[1] - b[1]) + (a[2] - b[2]) * (a[2] - b[2])
        + (a[3] - b[3]) * (a[3] - b[3])

\* the proximity test with <= for <
InReachLeq(handPosition, mesh) ==
    LET r == sphereData[mesh].scale + handRadius
    IN DistSq(handPosition, sphereData[mesh].position) <= r * r

\* distance < sphereRadius + handRadius
InReach(handPosition, mesh) ==
    LET r == sphereData[mesh].scale + handRadius
    IN DistSq(handPosition, sphereData[mesh].position) < r * r

\* sphereMeshes.forEach that records the time of a call only if the pool of
\* the mesh has a voice to play
RECURSIVE ForEachMeshSounding(_, _, _, _, _)
ForEachMeshSounding(w, src, handPosition, currentTime, k) ==
    IF k > Len(sphereMeshes) THEN w
    ELSE LET mesh == sphereMeshes[k]
             sounding == /\ sphereData[mesh].sound \in Pools
                         /\ Len(sounds[sphereData[mesh].sound]) > 0
             w1 == IF InReach(handPosition, mesh)
                   THEN [w EXCEPT !.checked = Append(@, <<src, mesh>>)]
                   ELSE w
             w2 == IF InReach(handPosition, mesh) /\ CooledDown(w.touched, mesh, currentTime)
                   THEN [w1 EXCEPT !.touched = IF sounding
                                               THEN SetTouched(@, mesh, currentTime)
                                               ELSE @,
                                   !.calls = Append(@, mesh)]
                   ELSE w1
         IN ForEachMeshSounding(w2, src, handPosition, currentTime, k + 1)

\* The body of sphereMeshes.forEach for the meshes from index k on, for the
\* input source of index src: w holds the map, the <<source, mesh>> pairs
\* that reached the cooldown test and the meshes interactWithSphere was
\* called on so far.
RECURSIVE ForEachMesh(_, _, _, _, _)
ForEachMesh(w, src, handPosition, currentTime, k) ==
    IF k > Len(sphereMeshes) THEN w
    ELSE LET mesh == sphereMeshes[k]
             w1 == IF InReach(handPosition, mesh)
                   THEN [w EXCEPT !.checked = Append(@, <<src, mesh>>)]
                   ELSE w
             w2 == IF InReach(handPosition, mesh) /\ CooledDown(w.touched, mesh, currentTime)
                   THEN [w1 EXCEPT !.touched = SetTouched(@, mesh, currentTime),
                                   !.calls = Append(@, mesh)]
                   ELSE w1
         IN ForEachMesh(w2, src, handPosition, currentTime, k + 1)

\* whether the loop over inputSources reaches the proximity test for a source
Tracked(inputSource) == inputSource.gripSpace /\ inputSource.pose

\* the loop over inputSources from index k on
RECURSIVE ForEachSource(_, _, _, _)
ForEachSource(w, inputSources, currentTime, k) ==
    IF k > Len(inputSources) THEN w
    ELSE LET w1 == IF Tracked(inputSources[k])
                   THEN ForEachMesh(w, k, inputSources[k].position, currentTime, 1)
                   ELSE w
         IN ForEachSource(w1, inputSources, currentTime, k + 1)

\* the guards of animate() left out
XRAvailableAlways(state) == TRUE

\* world.xr && world.xr.isPresenting, a session and a frame
XRAvailable(state) == state = "frame"

\* mesh.userData.rotationSpeed of every mesh: the doubles of the literals
\* of sphereData
rotationSpeed ==
    [m \in Spheres |-> [axis \in 1 .. 3 |-> FDivInt(sphereData[m].rotation[axis], 10)]]

\* the times a frame can be at, and so the times between two frames, ms
FrameTimes == {100 * k : k \in 1 .. MaxTicks}

\* delta * speed for every time between two frames, mesh and axis, with
\* delta = (currentTime - lastTime) / 1000
Increment ==
    [ms \in FrameTimes |->
        [m \in Spheres |->
            [axis \in 1 .. 3 |-> FMul(FDivInt(ms, 1000), rotationSpeed[m][axis])]]]

\* a rotation update that takes the speed of the y axis for the z axis
RotatedYForZ(r, mesh, ms) ==
    <<FAdd(r[1], Increment[ms][mesh][1]),
      FAdd(r[2], Increment[ms][mesh][2]),
      FAdd(r[3], Increment[ms][mesh][2])>>

\* the rotation of a mesh after a frame ms milliseconds after the last one:
\* rotation += delta * speed on every axis
Rotated(r, mesh, ms) ==
    <<FAdd(r[1], Increment[ms][mesh][1]),
      FAdd(r[2], Increment[ms][mesh][2]),
      FAdd(r[3], Increment[ms][mesh][3])>>

\* world.xr moves to another state
XRState(state) ==
    /\ state # xr.state
    /\ xr' = [xr EXCEPT !.state = state]
    /\ last' = Ran("xr", -1, <<>>, <<>>, <<>>)
    /\ UNCHANGED <<poolVars, color, rotation, lastTouchedTime, lastTime, cursor, run>>

\* an input source joins session.inputSources
SourceAdded(inputSource) ==
    /\ xr.state = "frame"
    /\ Len(xr.inputSources) < MaxSources
    /\ xr' = [xr EXCEPT !.inputSources = Append(@, inputSource)]
    /\ last' = Ran("xr", -1, <<>>, <<>>, <<>>)
    /\ UNCHANGED <<poolVars, color, rotation, lastTouchedTime, lastTime, cursor, run>>

\* the k-th input source moves, or loses or gains its grip space or its pose
SourceMoved(k, inputSource) ==
    /\ xr.state = "frame"
    /\ k \in 1 .. Len(xr.inputSources)
    /\ xr.inputSources[k] # inputSource
    /\ xr' = [xr EXCEPT !.inputSources[k] = inputSource]
    /\ last' = Ran("xr", -1, <<>>, <<>>, <<>>)
    /\ UNCHANGED <<poolVars, color, rotation, lastTouchedTime, lastTime, cursor, run>>

\* how many times mesh occurs in calls
RECURSIVE Count(_, _)
Count(calls, mesh) ==
    IF calls = <<>> THEN 0
    ELSE (IF Head(calls) = mesh THEN 1 ELSE 0) + Count(Tail(calls), mesh)

\* whether some tracked input source of this frame is in reach of mesh
Overlapped(mesh) ==
    /\ XRAvailable(xr.state)
    /\ \E k \in DOMAIN xr.inputSources :
         Tracked(xr.inputSources[k]) /\ InReach(xr.inputSources[k].position, mesh)

\* no frame in reach yet, and no call of interactWithSphere from a frame
NoRun == [len |-> 0, dt |-> 0, fires |-> 0, first |-> 0, lastf |-> 0, acc |-> <<>>]

\* The times of the last two frames that called interactWithSphere on a
\* mesh, after a frame at currentTime that called it f times.
Accepted(acc, f, currentTime) == LastN(acc \o [i \in 1 .. f |-> currentTime], 2)

\* The history of a mesh after a frame delta ms after the last one, in which
\* interactWithSphere was called f times on it: the longest run of
\* consecutive frames up to this one that are spaced alike and all in reach
\* of a hand (len, dt), the calls over the run (fires), on its first frame
\* (first) and on this frame (lastf).  acc is kept as it is.
RunAfter(r, inReach, delta, f) ==
    IF ~inReach THEN [NoRun EXCEPT !.acc = r.acc]
    ELSE IF r.len = 0
         THEN [len |-> 1, dt |-> 0, fires |-> f, first |-> f, lastf |-> f, acc |-> r.acc]
    ELSE IF r.len = 1 \/ r.dt = delta
         THEN [len |-> r.len + 1, dt |-> delta, fires |-> r.fires + f,
               first |-> r.first, lastf |-> f, acc |-> r.acc]
    ELSE [len |-> 2, dt |-> delta, fires |-> r.lastf + f, first |-> r.lastf, lastf |-> f,
          acc |-> r.acc]

\* one call of animate(), delta ms after the last one
AnimateFrame(delta) ==
    LET currentTime == lastTime + delta
        w0 == [touched |-> lastTouchedTime, checked |-> <<>>, calls |-> <<>>]
        w == IF XRAvailable(xr.state)
             THEN ForEachSource(w0, xr.inputSources, currentTime, 1)
             ELSE w0
    IN /\ currentTime <= MaxTicks * 100
       /\ lastTime' = currentTime
       /\ rotation' = [m \in Spheres |-> Rotated(rotation[m], m, delta)]
       /\ lastTouchedTime' = w.touched
       /\ \E draws \in [1 .. Len(w.calls) -> Draws] :
            LET e == InteractAll(Env, w.calls, draws)
            IN /\ sounds' = e.sounds
               /\ currentIndex' = e.currentIndex
               /\ color' = e.color
               /\ last' = [Ran("animate", -1, <<>>, w.calls, e.audio) EXCEPT !.checked = w.checked]
       /\ UNCHANGED <<pending, played, waited, cursor, xr>>

\* animate(), with the history of runs left as it is
Animate(delta) == AnimateFrame(delta) /\ UNCHANGED run

\* animate(), with the history of runs kept
AnimateRun(delta) ==
    /\ AnimateFrame(delta)
    /\ run' = [m \in Spheres |->
                 [RunAfter(run[m], Overlapped(m), delta, Count(last'.calls, m))
                     EXCEPT !.acc = Accepted(@, Count(last'.calls, m), lastTime')]]

----------------------------------------------------------------------------
Init ==
    /\ sounds = [p \in Pools |-> <<>>]
    /\ currentIndex = [p \in Pools |-> 0]
    /\ pending = [p \in Pools |-> PoolSize]
    /\ played = [p \in Pools |-> <<>>]
    /\ waited = [p \in Pools |-> <<>>]
    /\ color = [m \in Spheres |-> sphereData[m].color]
    /\ rotation = [m \in Spheres |-> <<FZero, FZero, FZero>>]
    /\ lastTouchedTime = <<>>
    /\ lastTime = 0
    /\ cursor = ""
    /\ xr = [state |-> "notPresenting", inputSources |-> <<>>]
    /\ run = [m \in Spheres |-> NoRun]
    /\ last = Ran("main", -1, <<>>, <<>>, <<>>)

\* The SoundPool class on its own: loads answer and play() is called in any order.
NextPool ==
    \/ \E p \in Pools : LoadDone(p)
    \/ \E p \in Pools : LoadFail(p)
    \/ \E p \in Pools : Play(p)
    \/ \E p \in Pools : \E i \in 1 .. PoolSize : Ended(p, i)

SpecPool == Init /\ [][NextPool]_vars

\* The pointer listeners while the loads answer and playbacks end.
NextPointer ==
    \/ \E p \in Pools : LoadDone(p)
    \/ \E p \in Pools : LoadFail(p)
    \/ \E p \in Pools : \E i \in 1 .. PoolSize : Ended(p, i)
    \/ \E h \in Intersections : Click(h)
    \/ \E h \in Intersections : MouseMove(h)

SpecPointer == Init /\ [][NextPointer]_vars

\* The frame callback and the click listener while the XR session and its
\* input sources change, before any load is answered.
NextXR ==
    \/ \E d \in Deltas : Animate(d)
    \/ \E x \in XRStates : XRState(x)
    \/ \E i \in InputSources : SourceAdded(i)
    \/ \E k \in 1 .. MaxSources : \E i \in InputSources : SourceMoved(k, i)

SpecXR == Init /\ [][NextXR]_vars

\* the input sources that rest on a mesh
Resting == {i \in InputSources : Tracked(i) /\ \E m \in Spheres : InReach(i.position, m)}

\* The click listener between frames in which hands rest on meshes, before
\* any load is answered.
NextClick ==
    \/ \E d \in Deltas : Animate(d)
    \/ \E x \in XRStates : XRState(x)
    \/ \E i \in Resting : SourceAdded(i)
    \/ \E h \in Intersections : Click(h)

SpecClick == Init /\ [][NextClick]_vars

\* The frame callback, with the history of runs kept, while hands come to
\* rest on meshes and the XR session comes and goes, before any load is answered.
NextCooldown ==
    \/ \E d \in Deltas : AnimateRun(d)
    \/ \E x \in XRStates : XRState(x)
    \/ \E i \in Resting : SourceAdded(i)

SpecCooldown == Init /\ [][NextCooldown]_vars

\* the pools that the sound index of some mesh names
MeshPools == {sphereData[m].sound : m \in Spheres} \cap Pools

\* The frame callback while hands come to rest on meshes and the loads of
\* the pools of the meshes are answered.
NextLoading ==
    \/ \E d \in Deltas : Animate(d)
    \/ \E x \in XRStates : XRState(x)
    \/ \E i \in Resting : SourceAdded(i)
    \/ \E p \in MeshPools : LoadDone(p)

SpecLoading == Init /\ [][NextLoading]_vars

\* Every handler that could reach a colour: frames 200 ms apart with
\* world.xr presenting or not, hands coming to rest on meshes no hand rests
\* on yet, clicks, pointer moves, and load callbacks (of the pools that no
\* mesh of sphereMeshes plays, so that the pools of the meshes stay empty).
NextColour ==
    \/ \E d \in {TOUCH_COOLDOWN} : Animate(d)
    \/ \E x \in {"notPresenting", "frame"} : XRState(x)
    \/ \E i \in Resting \ Range(xr.inputSources) : SourceAdded(i)
    \/ \E h \in Intersections : Click(h)
    \/ \E h \in Intersections : MouseMove(h)
    \/ \E p \in Pools \ MeshPools : LoadDone(p)

SpecColour == Init /\ [][NextColour]_vars

\* Every handler next to the rotation update: frames of every spacing with
\* world.xr presenting or not, hands coming to rest on meshes no hand rests
\* on yet, clicks and pointer moves, before any load is answered.
NextRotation ==
    \/ \E d \in Deltas : Animate(d)
    \/ \E x \in {"notPresenting", "frame"} : XRState(x)
    \/ \E i \in Resting \ Range(xr.inputSources) : SourceAdded(i)
    \/ \E h \in Intersections : Click(h)
    \/ \E h \in Intersections : MouseMove(h)

SpecRotation == Init /\ [][NextRotation]_vars

\* The program: every handler and every change around it, in any order.
\* The specifications above take some of these steps only, so that TLC can
\* go through all of their states; SpecPool calls play() on its own, as
\* interactWithSphere does for the pool of a mesh.
Next ==
    \/ \E p \in Pools : LoadDone(p)
    \/ \E p \in Pools : LoadFail(p)
    \/ \E p \in Pools : \E i \in 1 .. PoolSize : Ended(p, i)
    \/ \E h \in Intersections : Click(h)
    \/ \E h \in Intersections : MouseMove(h)
    \/ \E d \in Deltas : AnimateRun(d)
    \/ \E x \in XRStates : XRState(x)
    \/ \E i \in InputSources : SourceAdded(i)
    \/ \E k \in 1 .. MaxSources : \E i \in InputSources : SourceMoved(k, i)

Spec == Init /\ [][Next]_vars

----------------------------------------------------------------------------
(* The claims *)

\* distance(h, position of m) < scale of m + 0.1, in tenths
Within(h, m) ==
    LET c == sphereData[m].position
        d2 == (h[1] - c[1]) * (h[1] - c[1]) + (h[2] - c[2]) * (h[2] - c[2])
                  + (h[3] - c[3]) * (h[3] - c[3])
    IN d2 < (sphereData[m].scale + 1) * (sphereData[m].scale + 1)

\* C1: in a pool with p >= 1 ready voices, the play() calls made since the
\* last voice arrived select only existing voices, any p consecutive ones
\* select p different voices (each voice once), and a call selects the voice
\* that the call p calls before it selected, whatever index the first started at.
C1_RoundRobin ==
    \A q \in Pools :
        LET p == Len(sounds[q])
            log == played[q]
        IN /\ Len(log) <= p + 1
           /\ \A i \in DOMAIN log : log[i] \in 0 .. (p - 1)
           /\ \A i, j \in DOMAIN log : (i < j /\ j - i < p) => log[i] # log[j]
           /\ \A i, j \in DOMAIN log : j - i = p => log[j] = log[i]

\* C1 witness: a pool whose loads have all been answered, with at least two
\* voices, after p + 1 calls of play() of which the first selected a voice
\* other than voice 0.
C1_Witness ==
    \E q \in Pools :
        /\ pending[q] = 0
        /\ Len(sounds[q]) >= 2
        /\ Len(played[q]) = Len(sounds[q]) + 1
        /\ played[q][1] # 0

\* C2 as stated, for frames less than 200 ms apart: over consecutive frames
\* spaced a constant dt < 200 ms in all of which a hand is in reach of a mesh,
\* interactWithSphere is called on that mesh in at most one frame.
C2_AtMostOneOfN ==
    \A m \in Spheres :
        (run[m].len >= 2 /\ run[m].dt < TOUCH_COOLDOWN) => run[m].fires <= 1

\* C2 amended: over N consecutive frames spaced a constant dt in all of which
\* a hand is in reach of a mesh, with dt < 200 ms interactWithSphere is called
\* on the mesh in at most 1 + floor((N - 1) / (floor(200 / dt) + 1)) frames,
\* which is one frame as long as (N - 1) * dt <= 200; with dt > 200 ms it is
\* called in every frame after the first.
C2_Cooldown ==
    \A m \in Spheres :
        LET r == run[m]
        IN /\ (r.len >= 2 /\ r.dt < TOUCH_COOLDOWN) =>
                /\ r.fires <= 1 + ((r.len - 1) \div ((TOUCH_COOLDOWN \div r.dt) + 1))
                /\ ((r.len - 1) * r.dt <= TOUCH_COOLDOWN => r.fires <= 1)
           /\ (r.len >= 2 /\ r.dt > TOUCH_COOLDOWN) =>
                /\ r.first \in {0, 1}
                /\ r.fires = r.first + (r.len - 1)

\* C2 witness: four frames 100 ms apart, all in reach, with two calls.
C2_Witness ==
    \E m \in Spheres :
        /\ run[m].dt < TOUCH_COOLDOWN
        /\ run[m].len = 4
        /\ run[m].fires = 2

\* C3: in a frame in which a tracked input source is in reach of a mesh that
\* has no entry in lastTouchedTime, interactWithSphere is called on the mesh
\* and its entry becomes the time of the frame, whatever that time is.
C3_NoEntryEligible ==
    [][\A m \in Spheres :
         (/\ last'.op = "animate"
          /\ m \notin DOMAIN lastTouchedTime
          /\ \E k \in DOMAIN xr.inputSources : <<k, m>> \in Range(last'.checked))
         => (/\ Count(last'.calls, m) >= 1
             /\ m \in DOMAIN lastTouchedTime'
             /\ lastTouchedTime'[m] = lastTime')]_vars

\* C4: a click calls interactWithSphere on the first intersected mesh whatever
\* lastTouchedTime and the time of the last frame are, gives it a colour of
\* the palette, and leaves lastTouchedTime as it is.
C4_ClickNoCooldown ==
    [][last'.op = "click" =>
         /\ last'.calls = (IF last'.hits = <<>> THEN <<>> ELSE <<last'.hits[1]>>)
         /\ \A m \in Range(last'.calls) : color'[m] \in {colors[d + 1] : d \in Draws}
         /\ lastTouchedTime' = lastTouchedTime
         /\ lastTime' = lastTime]_vars

\* C4 witness: a click has called interactWithSphere on a mesh whose entry in
\* lastTouchedTime is the time of the last frame, so within the cooldown.
C4_Witness ==
    /\ last.op = "click"
    /\ last.calls # <<>>
    /\ last.calls[1] \in DOMAIN lastTouchedTime
    /\ lastTouchedTime[last.calls[1]] = lastTime

\* C5: play() on a pool with no ready voice calls no voice and changes
\* nothing: its currentIndex is 0 and stays 0, so that the first play() after
\* a voice has arrived selects voice 0.
C5_EmptyPlay ==
    [][\A p \in Pools :
         (last'.op = "play" /\ last'.pool = p /\ Len(sounds[p]) = 0)
         => (/\ last'.audio = <<>>
             /\ currentIndex[p] = 0
             /\ UNCHANGED <<sounds, currentIndex, pending, sceneVars>>)]_vars

\* C5 witness: play() has run on a pool with no ready voice, before a voice arrives.
C5_Witness ==
    /\ last.op = "play"
    /\ sounds[last.pool] = <<>>
    /\ pending[last.pool] > 0

\* C6: play() on a pool with ready voices stops the voice at currentIndex and
\* then starts it if it was playing, only starts it if it was not, leaves it
\* playing, and calls no other voice of any pool.
C6_StopBeforeRestart ==
    [][\A p \in Pools :
         (last'.op = "play" /\ last'.pool = p /\ Len(sounds[p]) > 0)
         => LET i == currentIndex[p]
            IN /\ last'.audio = (IF sounds[p][i + 1]
                                 THEN <<AudioOp(p, i, "stop"), AudioOp(p, i, "play")>>
                                 ELSE <<AudioOp(p, i, "play")>>)
               /\ sounds'[p][i + 1]
               /\ \A q \in Pools : \A j \in DOMAIN sounds[q] :
                    (q # p \/ j # i + 1) => sounds'[q][j] = sounds[q][j]
               /\ \A q \in Pools : Len(sounds'[q]) = Len(sounds[q])]_vars

\* C6 witness: play() has stopped and restarted a voice while another voice
\* of the same pool is playing.
C6_Witness ==
    /\ last.op = "play"
    /\ Len(last.audio) = 2
    /\ last.audio[1].act = "stop"
    /\ \E j \in DOMAIN sounds[last.pool] :
         j # last.audio[1].voice + 1 /\ sounds[last.pool][j]

\* C7: in a frame, for every tracked input source, the meshes that reach the
\* cooldown test for it are exactly the meshes at a distance strictly less
\* than scale + 0.1 from its position, each of them once.
C7_ProximitySet ==
    (last.op = "animate" /\ xr.state = "frame") =>
        /\ \A k \in DOMAIN xr.inputSources :
             (xr.inputSources[k].gripSpace /\ xr.inputSources[k].pose) =>
                 {m \in Spheres : <<k, m>> \in Range(last.checked)}
                     = {m \in Spheres : Within(xr.inputSources[k].position, m)}
        /\ \A i, j \in DOMAIN last.checked : i # j => last.checked[i] # last.checked[j]

\* C7 witness: a frame with one input source at distance 0.8 exactly from a
\* mesh, which does not reach the cooldown test, and another in reach of a
\* mesh, which does.
C7_Witness ==
    /\ last.op = "animate"
    /\ xr.state = "frame"
    /\ last.checked # <<>>
    /\ \E k \in DOMAIN xr.inputSources : \E m \in Spheres :
         /\ xr.inputSources[k].gripSpace /\ xr.inputSources[k].pose
         /\ DistSq(xr.inputSources[k].position, sphereData[m].position) = 64
         /\ <<k, m>> \notin Range(last.checked)

\* C8: the mousemove listener calls neither interactWithSphere nor a voice
\* and changes no colour, no pool, no entry of lastTouchedTime and no
\* rotation; it sets the cursor to "pointer" when the ray meets a mesh and to
\* "auto" when it meets none.
C8_HoverOnlyCursor ==
    [][last'.op = "mousemove" =>
         /\ last'.calls = <<>>
         /\ last'.audio = <<>>
         /\ cursor' = (IF last'.hits # <<>> THEN "pointer" ELSE "auto")
         /\ UNCHANGED <<color, sounds, currentIndex, pending, lastTouchedTime,
                        rotation, lastTime>>]_vars

\* C8 witness: the pointer has moved over a mesh whose pool has a ready voice.
C8_Witness ==
    /\ last.op = "mousemove"
    /\ last.hits # <<>>
    /\ cursor = "pointer"
    /\ sphereData[last.hits[1]].sound \in Pools
    /\ sounds[sphereData[last.hits[1]].sound] # <<>>

\* C9: interactWithSphere gives the mesh a colour of the palette also when
\* no sound is played: with a sound index that names no pool, or a pool with
\* no ready voice, no voice is called and no pool changes, and the colour is
\* assigned all the same.
C9_ColourAlways ==
    [][\A m \in Spheres :
         (last'.op = "click" /\ last'.calls = <<m>>)
         => (/\ color'[m] \in {colors[d + 1] : d \in Draws}
             /\ (\/ sphereData[m].sound \notin Pools
                 \/ Len(sounds[sphereData[m].sound]) = 0)
                => (/\ last'.audio = <<>>
                    /\ UNCHANGED <<sounds, currentIndex>>))]_vars

\* C9 witness: interactWithSphere has recoloured a mesh whose pool has no
\* ready voice and no load left to answer.
C9_Witness ==
    /\ last.op = "click"
    /\ \E m \in Spheres :
         /\ last.calls = <<m>>
         /\ sphereData[m].sound \in Pools
         /\ sounds[sphereData[m].sound] = <<>>
         /\ pending[sphereData[m].sound] = 0
         /\ color[m] # sphereData[m].color

\* delta * speed as doubles, for a frame ms milliseconds after the last one
Turn ==
    [ms \in {100, 200, 300} |->
        [m \in Spheres |->
            [axis \in 1 .. 3 |->
                FMul(FDivInt(ms, 1000), FDivInt(sphereData[m].rotation[axis], 10))]]]

\* C10: every frame adds delta * speed to every rotation; a frame in which
\* world.xr is not presenting, has no session or has no frame calls
\* interactWithSphere on no mesh and leaves colours, pools and
\* lastTouchedTime as they are; in a frame, an input source with no grip
\* space or no pose reaches the cooldown test for no mesh, and every other
\* input source reaches it for every mesh within its reach.
C10_XRGuards ==
    [][last'.op = "animate" =>
         /\ \A m \in Spheres : \A axis \in 1 .. 3 :
                rotation'[m][axis] = FAdd(rotation[m][axis], Turn[lastTime' - lastTime][m][axis])
         /\ xr.state # "frame" =>
                /\ last'.calls = <<>>
                /\ last'.checked = <<>>
                /\ UNCHANGED <<color, sounds, currentIndex, lastTouchedTime>>
         /\ xr.state = "frame" =>
                \A k \in DOMAIN xr.inputSources : \A m \in Spheres :
                    <<k, m>> \in Range(last'.checked)
                        <=> (/\ xr.inputSources[k].gripSpace
                             /\ xr.inputSources[k].pose
                             /\ Within(xr.inputSources[k].position, m))]_vars

\* C10 witness: a frame has run with world.xr unavailable while an input
\* source was in reach of a mesh whose cooldown had passed.
C10_Witness ==
    /\ last.op = "animate"
    /\ xr.state # "frame"
    /\ last.calls = <<>>
    /\ \E k \in DOMAIN xr.inputSources : \E m \in Spheres :
         /\ xr.inputSources[k].gripSpace /\ xr.inputSources[k].pose
         /\ Within(xr.inputSources[k].position, m)
         /\ lastTime - LastTouched(lastTouchedTime, m) > TOUCH_COOLDOWN

\* C11: a click whose ray meets several meshes calls interactWithSphere on
\* the first of the list alone and leaves every other mesh, every pool but
\* the one of that mesh, lastTouchedTime and the rotations as they are; a
\* click whose ray meets no mesh calls nothing and changes nothing.
C11_ClickNearestOnly ==
    [][last'.op = "click" =>
         /\ last'.hits # <<>> =>
                LET m == last'.hits[1]
                IN /\ last'.calls = <<m>>
                   /\ \A o \in Spheres \ {m} : color'[o] = color[o]
                   /\ \A q \in Pools \ {sphereData[m].sound} :
                        sounds'[q] = sounds[q] /\ currentIndex'[q] = currentIndex[q]
                   /\ UNCHANGED <<pending, rotation, lastTouchedTime, lastTime, cursor, xr>>
         /\ last'.hits = <<>> =>
                /\ last'.calls = <<>>
                /\ last'.audio = <<>>
                /\ UNCHANGED <<sounds, currentIndex, pending, color, rotation,
                               lastTouchedTime, lastTime, cursor, xr>>]_vars

\* C11 witness: a click whose ray met two meshes has recoloured the first and
\* left the second with its original colour.
C11_Witness ==
    /\ last.op = "click"
    /\ Len(last.hits) = 2
    /\ color[last.hits[1]] # sphereData[last.hits[1]].color
    /\ color[last.hits[2]] = sphereData[last.hits[2]].color

\* C12: the frames that called interactWithSphere on a mesh are more than
\* 200 ms apart (a frame 200 ms after such a frame calls nothing), and a
\* mesh has an entry in lastTouchedTime exactly when a frame has called
\* interactWithSphere on it, the entry being the time of the last such
\* frame: so a call on one mesh leaves the entry of every other mesh alone.
C12_CooldownEntries ==
    \A m \in Spheres :
        LET a == run[m].acc
        IN /\ Len(a) = 2 => a[2] - a[1] > TOUCH_COOLDOWN
           /\ (m \in DOMAIN lastTouchedTime) <=> (a # <<>>)
           /\ a # <<>> => lastTouchedTime[m] = a[Len(a)]

\* C12 witness: a frame 200 ms after the last call on a mesh has reached the
\* cooldown test for it and called nothing, while another mesh has an entry
\* of another time.
C12_Witness ==
    /\ last.op = "animate"
    /\ \E m \in Spheres :
         /\ \E k \in DOMAIN xr.inputSources : <<k, m>> \in Range(last.checked)
         /\ Count(last.calls, m) = 0
         /\ m \in DOMAIN lastTouchedTime
         /\ lastTime - lastTouchedTime[m] = TOUCH_COOLDOWN
         /\ \E o \in Spheres \ {m} :
              o \in DOMAIN lastTouchedTime /\ lastTouchedTime[o] # lastTouchedTime[m]

\* C13: whatever the order of load callbacks and play() calls, a pool with a
\* ready voice has 0 <= currentIndex < number of ready voices, so that play()
\* finds a voice at currentIndex; a pool with no ready voice has currentIndex 0.
C13_IndexInRange ==
    \A p \in Pools :
        /\ currentIndex[p] >= 0
        /\ Len(sounds[p]) >= 1 => currentIndex[p] < Len(sounds[p])
        /\ Len(sounds[p]) = 0 => currentIndex[p] = 0

\* C13 witness: a pool of three ready voices whose only play() since the
\* last voice arrived selected voice 1: the calls before it were made with
\* fewer voices, and currentIndex is now 2.
C13_Witness ==
    /\ last.op = "play"
    /\ Len(sounds[last.pool]) = 3
    /\ played[last.pool] = <<1>>
    /\ currentIndex[last.pool] = 2

\* C14: a load callback appends one voice to its pool and leaves the voices
\* already there, their isPlaying, the pool's currentIndex and every other
\* pool as they are; a load that fails appends nothing.  No step takes a
\* voice away from a pool or gives it more than PoolSize voices, and play()
\* on one pool leaves every other pool as it is.
C14_LoadAppendsOne ==
    [][/\ \A p \in Pools :
            (last'.op = "load" /\ last'.pool = p) =>
                /\ Len(sounds'[p]) = Len(sounds[p]) + 1
                /\ SubSeq(sounds'[p], 1, Len(sounds[p])) = sounds[p]
                /\ currentIndex' = currentIndex
                /\ \A q \in Pools \ {p} : sounds'[q] = sounds[q]
       /\ last'.op = "loadfail" => UNCHANGED <<sounds, currentIndex>>
       /\ \A q \in Pools :
            Len(sounds'[q]) >= Len(sounds[q]) /\ Len(sounds'[q]) <= PoolSize
       /\ \A p \in Pools :
            (last'.op = "play" /\ last'.pool = p) =>
                \A q \in Pools \ {p} :
                    sounds'[q] = sounds[q] /\ currentIndex'[q] = currentIndex[q]]_vars

\* C14 witness: a voice has arrived in a pool whose currentIndex is not 0
\* and which has a playing voice, while a voice of another pool is playing.
C14_Witness ==
    /\ last.op = "load"
    /\ currentIndex[last.pool] > 0
    /\ \E i \in DOMAIN sounds[last.pool] : sounds[last.pool][i]
    /\ \E q \in Pools \ {last.pool} : \E i \in DOMAIN sounds[q] : sounds[q][i]

\* the voices of pool p that are playing
Playing(p) == {i \in DOMAIN sounds[p] : sounds[p][i]}

\* C16: in a run of play() calls on a pool that starts with all PoolSize
\* voices ready and none playing, with no other step in between, the k-th
\* call for k <= PoolSize stops no voice and leaves k voices playing; call
\* PoolSize + 1 stops one voice, the one the first call started, and starts
\* it again.
C16_OverlapUpToPoolSize ==
    (last.op = "play" /\ last.burst >= 1) =>
        LET p == last.pool
            k == last.burst
        IN /\ k <= PoolSize =>
                /\ Cardinality(Playing(p)) = k
                /\ \A i \in DOMAIN last.audio : last.audio[i].act # "stop"
           /\ k = PoolSize + 1 =>
                /\ Len(played[p]) = PoolSize + 1
                /\ last.audio = <<AudioOp(p, played[p][1], "stop"),
                                  AudioOp(p, played[p][1], "play")>>
                /\ Cardinality(Playing(p)) = PoolSize

\* C16 witness: call PoolSize + 1 of such a run whose first call selected a
\* voice other than voice 0.
C16_Witness ==
    /\ last.op = "play"
    /\ last.burst = PoolSize + 1
    /\ played[last.pool][1] # 0

\* C18: a ready voice is passed over by at most PoolSize - 1 calls of play()
\* on its pool before it is selected, counted from its arrival or from its
\* last selection, whatever loads are answered in between.
C18_NoVoiceStarved ==
    \A p \in Pools : \A i \in DOMAIN waited[p] : waited[p][i] <= PoolSize - 1

\* C18 witness: a load is answered while an earlier voice of the pool, at or
\* after currentIndex, has been passed over and not selected yet.
C18_Witness ==
    /\ last.op = "load"
    /\ \E i \in 1 .. (Len(sounds[last.pool]) - 1) :
         /\ waited[last.pool][i] > 0
         /\ i - 1 >= currentIndex[last.pool]
         /\ ~sounds[last.pool][i]

\* C17: a frame calls interactWithSphere on a mesh once if some tracked
\* input source is in reach of it and its cooldown had passed when the frame
\* began, and not at all otherwise, however many input sources are in reach
\* of it; after the call its entry in lastTouchedTime is the time of the frame.
C17_OncePerFrame ==
    [][last'.op = "animate" =>
         \A m \in Spheres :
            LET reached == \E k \in DOMAIN xr.inputSources : <<k, m>> \in Range(last'.checked)
                due == lastTime' - LastTouched(lastTouchedTime, m) > TOUCH_COOLDOWN
            IN /\ Count(last'.calls, m) = (IF reached /\ due THEN 1 ELSE 0)
               /\ Count(last'.calls, m) = 1 =>
                    (m \in DOMAIN lastTouchedTime' /\ lastTouchedTime'[m] = lastTime')]_vars

\* C17 witness: a frame in which two input sources were in reach of the same
\* mesh has called interactWithSphere on it once.
C17_Witness ==
    /\ last.op = "animate"
    /\ \E m \in Spheres :
         /\ Count(last.calls, m) = 1
         /\ \E j, k \in DOMAIN xr.inputSources :
              j # k /\ <<j, m>> \in Range(last.checked) /\ <<k, m>> \in Range(last.checked)

\* C19: a frame that calls interactWithSphere on a mesh whose sound index
\* names no pool, or a pool with no ready voice, calls no voice and sets the
\* entry of the mesh to the time of the frame all the same; and a frame that
\* finds a mesh in reach 200 ms or less after its entry calls nothing for it
\* and leaves its colour and its entry alone, whatever voices are ready by then.
C19_DroppedTriggerCoolsDown ==
    [][last'.op = "animate" =>
         \A m \in Spheres :
            LET q == sphereData[m].sound
                silent == q \notin Pools \/ Len(sounds[q]) = 0
                reached == \E k \in DOMAIN xr.inputSources : <<k, m>> \in Range(last'.checked)
            IN /\ (Count(last'.calls, m) >= 1 /\ silent) =>
                    /\ \A i \in DOMAIN last'.audio : last'.audio[i].pool # q
                    /\ m \in DOMAIN lastTouchedTime'
                    /\ lastTouchedTime'[m] = lastTime'
               /\ (/\ reached
                   /\ m \in DOMAIN lastTouchedTime
                   /\ lastTime' - lastTouchedTime[m] <= TOUCH_COOLDOWN) =>
                    /\ Count(last'.calls, m) = 0
                    /\ color'[m] = color[m]
                    /\ lastTouchedTime'[m] = lastTouchedTime[m]]_vars

\* C19 witness: a frame has found a mesh in reach within 200 ms of its entry
\* and called nothing for it, while its pool has a ready voice and has never
\* played one: the entry is that of a call made when the pool was empty.
C19_Witness ==
    /\ last.op = "animate"
    /\ \E m \in Spheres :
         /\ \E k \in DOMAIN xr.inputSources : <<k, m>> \in Range(last.checked)
         /\ Count(last.calls, m) = 0
         /\ m \in DOMAIN lastTouchedTime
         /\ lastTime - lastTouchedTime[m] <= TOUCH_COOLDOWN
         /\ sphereData[m].sound \in Pools
         /\ Len(sounds[sphereData[m].sound]) >= 1
         /\ currentIndex[sphereData[m].sound] = 0
         /\ \A i \in DOMAIN sounds[sphereData[m].sound] : ~sounds[sphereData[m].sound][i]

\* C15: the colour of a mesh is always its original colour or a colour of
\* the palette, and it changes only in a click or a frame that calls
\* interactWithSphere on that mesh: no other frame, no pointer move, no load
\* callback and no call on another mesh changes it.
C15_ColourOnlyByInteract ==
    /\ [](\A m \in Spheres : color[m] \in {sphereData[m].color} \cup Range(colors))
    /\ [][\A m \in Spheres :
            color'[m] # color[m] =>
                (last'.op \in {"click", "animate"} /\ Count(last'.calls, m) >= 1)]_vars

\* C15 witness: a frame has called interactWithSphere on one mesh and found
\* another in reach within its cooldown, which keeps the palette colour an
\* earlier call gave it.
C15_Witness ==
    /\ last.op = "animate"
    /\ \E m \in Spheres :
         /\ \E k \in DOMAIN xr.inputSources : <<k, m>> \in Range(last.checked)
         /\ Count(last.calls, m) = 0
         /\ color[m] # sphereData[m].color
         /\ \E o \in Spheres \ {m} : Count(last.calls, o) = 1

\* total * speed as doubles, for a single frame total milliseconds after the
\* start
Whole ==
    [total \in {100 * k : k \in 0 .. MaxTicks} |->
        [m \in Spheres |->
            [axis \in 1 .. 3 |->
                FMul(FDivInt(total, 1000), FDivInt(sphereData[m].rotation[axis], 10))]]]

\* The distance of two doubles in units of the last place of the smaller
\* one; 2^30 stands for every distance that is not a few units.
Ulps(a, b) ==
    LET Far == 2^30
        x == IF a.e >= b.e THEN a ELSE b
        y == IF a.e >= b.e THEN b ELSE a
        Abs(n) == IF n < 0 THEN -n ELSE n
    IN IF a = b THEN 0
       ELSE IF a = FZero \/ b = FZero THEN Far
       ELSE IF x.e = y.e
            THEN (IF Abs(x.h - y.h) > 1 THEN Far
                  ELSE Abs((x.h - y.h) * Limb + (x.l - y.l)))
       ELSE IF x.e = y.e + 1 /\ x.h = 2^24 /\ y.h = 2^25 - 1
            THEN 2 * x.l + (Limb - y.l)
       ELSE Far

\* C20 as stated: every frame adds delta * speed to the rotation of every
\* mesh on every axis, whatever world.xr gives, and no other step changes a
\* rotation; the rotation after a sequence of frames is that of a single
\* frame over the whole time, however the time is split into frames; and
\* speed (0, 0.6, 0.6) with delta 0.5 s adds 0 to x and 0.3 to y and z.
C20_FrameRateIndependent ==
    /\ [](/\ \A m \in Spheres : \A axis \in 1 .. 3 :
                rotation[m][axis] = Whole[lastTime][m][axis]
          /\ FAdd(FZero, FMul(FDivInt(500, 1000), FDivInt(0, 10))) = FZero
          /\ FAdd(FZero, FMul(FDivInt(500, 1000), FDivInt(6, 10))) = FDivInt(3, 10))
    /\ [][last'.op = "animate" =>
            \A m \in Spheres : \A axis \in 1 .. 3 :
                rotation'[m][axis] =
                    FAdd(rotation[m][axis], Whole[lastTime' - lastTime][m][axis])]_vars
    /\ [][last'.op # "animate" => rotation' = rotation]_vars

\* C20 amended: every frame adds the double delta * speed to the rotation
\* of every mesh on every axis, whatever world.xr gives, and no other step
\* changes a rotation; speed (0, 0.6, 0.6) with delta 0.5 s adds 0 to x and
\* 0.3 to y and z; the rotation after a sequence of frames is the sum of
\* these doubles in the order of the frames, which is that of a single frame
\* over the whole time up to rounding only: within one unit in the last
\* place for every 100 ms of that time.
C20_RotationAccumulates ==
    /\ [](/\ \A m \in Spheres : \A axis \in 1 .. 3 :
                Ulps(rotation[m][axis], Whole[lastTime][m][axis]) <= lastTime \div 100
          /\ FAdd(FZero, FMul(FDivInt(500, 1000), FDivInt(0, 10))) = FZero
          /\ FAdd(FZero, FMul(FDivInt(500, 1000), FDivInt(6, 10))) = FDivInt(3, 10))
    /\ [][last'.op = "animate" =>
            \A m \in Spheres : \A axis \in 1 .. 3 :
                rotation'[m][axis] =
                    FAdd(rotation[m][axis], Whole[lastTime' - lastTime][m][axis])]_vars
    /\ [][last'.op # "animate" => rotation' = rotation]_vars

\* C20 witness: after frames with world.xr not presenting, a rotation that
\* is not the one a single frame over the whole time gives.
C20_Witness ==
    /\ last.op = "animate"
    /\ xr.state = "notPresenting"
    /\ \E m \in Spheres : \E axis \in 1 .. 3 :
         rotation[m][axis] # Whole[lastTime][m][axis]

====
